---- MODULE Spec2Model ----
(***************************************************************************)
(* Model of the user-management application: the User table behind the     *)
(* Prisma client, the five route handlers (GET/POST on /api/users and      *)
(* GET/PUT/DELETE on /api/users/[id]) and the three browser views (Home,   *)
(* AddUser, EditUser) that call them with fetch.                           *)
(*                                                                         *)
(* Strings that the code parses or formats (the [id] path segment) are     *)
(* sequences of one-character strings; names and emails are opaque values, *)
(* an email standing for what the email column's unique index compares.    *)
(***************************************************************************)
EXTENDS Integers, Sequences, FiniteSets, TLC

\* ------------------------------------------------------------------ bounds
MaxReq   == 2        \* requests that clients other than the browser send
MaxFetch == 3        \* fetch calls of the browser
MaxOpen  == 2        \* fetch calls of the browser awaiting their result
MaxNav   == 2        \* view mounts after the first one

Names  == {"a", "b"}
Emails == {"x", "y"}
\* path segments a client may put in /api/users/[id]
PathIds == { <<"1">>, <<"2", "x">>, <<"x">> }

\* ------------------------------------------------------- String <-> number
Digits == <<"0", "1", "2", "3", "4", "5", "6", "7", "8", "9">>

IsDigit(c) == \E i \in 1..10 : Digits[i] = c

DigitVal(c) == (CHOOSE i \in 1..10 : Digits[i] = c) - 1

IsSpace(c) == c = " "

RECURSIVE SkipSpace(_)
SkipSpace(s) ==
  IF s # <<>> /\ IsSpace(Head(s)) THEN SkipSpace(Tail(s)) ELSE s

RECURSIVE DigitPrefix(_, _, _)
\* value of the longest run of decimal digits at the front of s
DigitPrefix(s, acc, seen) ==
  IF s # <<>> /\ IsDigit(Head(s))
    THEN DigitPrefix(Tail(s), acc * 10 + DigitVal(Head(s)), TRUE)
    ELSE [nan |-> ~seen, n |-> acc]

\* JavaScript parseInt(string): skip white space, an optional sign, then the
\* longest prefix of digits; NaN when there is no digit there.  (The 0x
\* prefix, which selects radix 16, occurs in no path id of PathIds.)
parseInt(s) ==
  LET t    == SkipSpace(s)
      neg  == t # <<>> /\ Head(t) = "-"
      sgn  == t # <<>> /\ Head(t) \in {"-", "+"}
      body == IF sgn THEN Tail(t) ELSE t
      p    == DigitPrefix(body, 0, FALSE)
  IN  IF p.nan THEN [nan |-> TRUE, n |-> 0]
      ELSE [nan |-> FALSE, n |-> IF neg THEN 0 - p.n ELSE p.n]

RECURSIVE NatToString(_)
NatToString(n) ==
  IF n < 10 THEN <<Digits[n + 1]>>
  ELSE NatToString(n \div 10) \o <<Digits[(n % 10) + 1]>>

\* template literal `${id}` for a number
NumberToString(n) ==
  IF n < 0 THEN <<"-">> \o NatToString(0 - n) ELSE NatToString(n)

\* ------------------------------------------------------------- User table
User(i, nm, em) == [id |-> i, name |-> nm, email |-> em]

ids(t)    == { u.id : u \in t }
emails(t) == { u.email : u \in t }

\* @id on id, @unique on email
UniqueIds(t)    == \A u, v \in t : u.id = v.id => u = v
UniqueEmails(t) == \A u, v \in t : u.email = v.email => u = v

\* ------------------------------------------------ Prisma client operations
\* Each returns the set of possible outcomes
\*   [ok, rows, table, nextId]
\* ok = FALSE is a thrown PrismaClient error; rows is the value returned.
Outcome(ok, rows, t, nx) == [ok |-> ok, rows |-> rows, table |-> t, nextId |-> nx]

findMany(t, nx) == { Outcome(TRUE, t, t, nx) }

\* where: { id: NaN } is not a value of the Int column: the source does not
\* decide whether the client rejects the query or matches no row.
findUnique(t, nx, key) ==
  IF key.nan
    THEN { Outcome(TRUE, {}, t, nx), Outcome(FALSE, {}, t, nx) }
    ELSE { Outcome(TRUE, { u \in t : u.id = key.n }, t, nx) }

\* create without the unique index on email
createUnchecked(t, nx, data) ==
  LET u == User(nx, data.name, data.email)
  IN  { Outcome(TRUE, {u}, t \cup {u}, nx + 1) }

\* create that numbers the new row by the row count
createByCount(t, nx, data) ==
  IF data.email \in emails(t)
    THEN { Outcome(FALSE, {}, t, nx), Outcome(FALSE, {}, t, nx + 1) }
    ELSE LET u == User(Cardinality(t) + 1, data.name, data.email)
         IN  { Outcome(TRUE, {u}, t \cup {u}, nx + 1) }

\* create with the unique index on (name, email) instead of email
createPairUnique(t, nx, data) ==
  IF \E v \in t : v.email = data.email /\ v.name = data.name
    THEN { Outcome(FALSE, {}, t, nx), Outcome(FALSE, {}, t, nx + 1) }
    ELSE LET u == User(nx, data.name, data.email)
         IN  { Outcome(TRUE, {u}, t \cup {u}, nx + 1) }

\* INSERT with an AUTO_INCREMENT id; a duplicate email violates the unique
\* index; the engine may or may not consume the counter value on a failed
\* insert.
create(t, nx, data) ==
  IF data.email \in emails(t)
    THEN { Outcome(FALSE, {}, t, nx), Outcome(FALSE, {}, t, nx + 1) }
    ELSE LET u == User(nx, data.name, data.email)
         IN  { Outcome(TRUE, {u}, t \cup {u}, nx + 1) }

\* update that writes the name only
updateNameOnly(t, nx, key, data) ==
  LET hit == IF key.nan THEN {} ELSE { u \in t : u.id = key.n }
  IN  IF hit = {} THEN { Outcome(FALSE, {}, t, nx) }
      ELSE IF data.email \in emails(t \ hit) THEN { Outcome(FALSE, {}, t, nx) }
      ELSE LET new == { User(u.id, data.name, u.email) : u \in hit }
           IN  { Outcome(TRUE, new, (t \ hit) \cup new, nx) }

\* update that inserts the row when no record matches (upsert)
upsert(t, nx, key, data) ==
  LET hit == IF key.nan THEN {} ELSE { u \in t : u.id = key.n }
  IN  IF data.email \in emails(t \ hit) THEN { Outcome(FALSE, {}, t, nx) }
      ELSE IF hit = {}
        THEN LET u == User(nx, data.name, data.email)
             IN  { Outcome(TRUE, {u}, t \cup {u}, nx + 1) }
        ELSE LET new == { User(u.id, data.name, data.email) : u \in hit }
             IN  { Outcome(TRUE, new, (t \ hit) \cup new, nx) }

\* UPDATE ... WHERE id = key; throws when no record matches or when the new
\* email is held by another row.
update(t, nx, key, data) ==
  LET hit == IF key.nan THEN {} ELSE { u \in t : u.id = key.n }
  IN  IF hit = {} THEN { Outcome(FALSE, {}, t, nx) }
      ELSE IF data.email \in emails(t \ hit) THEN { Outcome(FALSE, {}, t, nx) }
      ELSE LET new == { User(u.id, data.name, data.email) : u \in hit }
           IN  { Outcome(TRUE, new, (t \ hit) \cup new, nx) }

\* delete that succeeds when no record matches (deleteMany)
deleteMany(t, nx, key) ==
  LET hit == IF key.nan THEN {} ELSE { u \in t : u.id = key.n }
  IN  { Outcome(TRUE, hit, t \ hit, nx) }

\* DELETE ... WHERE id = key; throws when no record matches.
delete(t, nx, key) ==
  LET hit == IF key.nan THEN {} ELSE { u \in t : u.id = key.n }
  IN  IF hit = {} THEN { Outcome(FALSE, {}, t, nx) }
      ELSE { Outcome(TRUE, hit, t \ hit, nx) }

\* ------------------------------------------------------------ HTTP layer
NoData == [name |-> "", email |-> ""]
NoPath == <<>>

\* NextResponse.json(body, {status}); an exception that escapes a route
\* handler is answered by the framework with status 500.
Response(status, kind, rows, message) ==
  [status |-> status, kind |-> kind, rows |-> rows, message |-> message]

ServerError == Response(500, "error", {}, "")
NoResponse  == Response(0, "none", {}, "")

\* Response.ok
ok(res) == res.status >= 200 /\ res.status <= 299

\* what one handler run does: its response and the table it leaves
Served(res, o) == [res |-> res, table |-> o.table, nextId |-> o.nextId]

\* app/api/users/route.ts
GET(t, nx) ==
  { Served(Response(200, "users", o.rows, ""), o) : o \in findMany(t, nx) }

POST(t, nx, data) ==
  { Served(IF o.ok THEN Response(200, "user", o.rows, "") ELSE ServerError, o)
      : o \in create(t, nx, data) }

\* GET by id without the !user branch
GET_idUnchecked(t, nx, pid) ==
  { Served(IF ~o.ok THEN ServerError ELSE Response(200, "user", o.rows, ""), o)
      : o \in findUnique(t, nx, parseInt(pid)) }

\* app/api/users/[id]/route.ts
GET_id(t, nx, pid) ==
  { Served(IF ~o.ok THEN ServerError
           ELSE IF o.rows = {} THEN Response(404, "message", {}, "User not found")
           ELSE Response(200, "user", o.rows, ""), o)
      : o \in findUnique(t, nx, parseInt(pid)) }

PUT_id(t, nx, pid, data) ==
  { Served(IF o.ok THEN Response(200, "user", o.rows, "") ELSE ServerError, o)
      : o \in update(t, nx, parseInt(pid), data) }

DELETE_id(t, nx, pid) ==
  { Served(IF o.ok THEN Response(200, "message", {}, "User deleted") ELSE ServerError, o)
      : o \in delete(t, nx, parseInt(pid)) }

\* ------------------------------------------------------------------ state
VARIABLES
  table,    \* rows of the User table
  nextId,   \* AUTO_INCREMENT counter of User.id
  reqs,     \* requests in flight: sent and not yet resolved at their client
  sent,     \* number of requests sent so far
  fetched,  \* number of fetch calls of the browser so far
  last,     \* API clients' log: the request handled last, with its response
  prev,     \* API clients' log: the request handled before that, in brief
  page,     \* the view the browser shows: "list", "add" or "edit"
  inst,     \* number of the mounted view instance
  users,    \* Home: useState<User[]>
  name,     \* AddUser / EditUser: useState('')
  email,    \* AddUser / EditUser: useState('')
  id,       \* EditUser: useParams().id
  console,  \* number of console.error calls
  deleted,  \* Home: ids whose DELETE this instance saw answered ok
  ev        \* the fetch the browser resumed last, with how it ended

server  == <<table, nextId, last, prev>>
browser == <<page, inst, users, name, email, id, console, deleted, ev>>
vars    == <<table, nextId, reqs, sent, fetched, last, prev,
             page, inst, users, name, email, id, console, deleted, ev>>

\* where a request comes from: another client of the API ("ext") or one of
\* the browser's async functions, with what its closure captured
Src(who, i, us, uid) == [who |-> who, inst |-> i, users |-> us, id |-> uid]
Ext == Src("ext", 0, {}, 0)

Req(rid, m, pid, data, src) ==
  [rid |-> rid, m |-> m, pid |-> pid, data |-> data, src |-> src,
   st |-> "pending", ov |-> FALSE, res |-> NoResponse]

\* a handled request: ov says that it was already waiting when the request
\* before it was handled; before is the table the handler found
Hist(r, res, t) ==
  [m |-> r.m, pid |-> r.pid, data |-> r.data, ov |-> r.ov, res |-> res, before |-> t]
NoHist ==
  [m |-> "NONE", pid |-> NoPath, data |-> NoData, ov |-> FALSE,
   res |-> NoResponse, before |-> {}]

\* of a handled request: method, path id, email sent, status answered and
\* whether no row held that email when the handler ran
Brief(h) ==
  [m |-> h.m, pid |-> h.pid, email |-> h.data.email, status |-> h.res.status,
   fresh |-> h.data.email \notin emails(h.before)]

\* tables left by earlier runs, with the counter they leave
InitTables ==
  { [table |-> {}, nextId |-> 1],
    [table |-> {User(1, "a", "x"), User(2, "b", "y")}, nextId |-> 3] }

\* the browser opens one of the three routes; Home and EditUser fetch in
\* their mount effect
Init ==
  /\ \E db \in InitTables : table = db.table /\ nextId = db.nextId
  /\ sent = 0
  /\ last = NoHist /\ prev = Brief(NoHist)
  /\ inst = 1
  /\ users = {} /\ name = "" /\ email = ""
  /\ console = 0 /\ deleted = {}
  /\ ev = [who |-> "none", outcome |-> "none", id |-> 0, mounted |-> FALSE]
  /\ \/ /\ page = "list" /\ id = NoPath /\ fetched = 1
        /\ reqs = { Req(1, "LIST", NoPath, NoData, Src("Home.fetchUsers", 1, {}, 0)) }
     \/ /\ page = "add" /\ id = NoPath /\ fetched = 0 /\ reqs = {}
     \/ /\ page = "edit" /\ id \in PathIds /\ fetched = 1
        /\ reqs = { Req(1, "GET", id, NoData, Src("EditUser.fetchUser", 1, {}, 0)) }

\* ----------------------------------------------------------------- server
\* the handler of request r runs, with result s; the response travels back
\* to the browser, or into the log of the API client that sent r
Serve(r, s) ==
  /\ table' = s.table
  /\ nextId' = s.nextId
  /\ IF r.src.who = "ext"
       THEN prev' = Brief(last) /\ last' = Hist(r, s.res, table)
       ELSE UNCHANGED <<last, prev>>
  /\ reqs' = { IF q.src.who = "ext" /\ r.src.who = "ext"
                   THEN [q EXCEPT !.ov = TRUE] ELSE q
                 : q \in reqs \ {r} }
             \cup (IF r.src.who = "ext" THEN {}
                   ELSE { [r EXCEPT !.st = "answered", !.res = s.res] })
  /\ UNCHANGED <<sent, fetched, browser>>

GET_users ==
  \E r \in reqs : r.st = "pending" /\ r.m = "LIST"
    /\ \E s \in GET(table, nextId) : Serve(r, s)

POST_users ==
  \E r \in reqs : r.st = "pending" /\ r.m = "POST"
    /\ \E s \in POST(table, nextId, r.data) : Serve(r, s)

GET_users_id ==
  \E r \in reqs : r.st = "pending" /\ r.m = "GET"
    /\ \E s \in GET_id(table, nextId, r.pid) : Serve(r, s)

PUT_users_id ==
  \E r \in reqs : r.st = "pending" /\ r.m = "PUT"
    /\ \E s \in PUT_id(table, nextId, r.pid, r.data) : Serve(r, s)

DELETE_users_id ==
  \E r \in reqs : r.st = "pending" /\ r.m = "DELETE"
    /\ \E s \in DELETE_id(table, nextId, r.pid) : Serve(r, s)

\* ----------------------------------------------------------- other clients
\* any client of the API sends any request
Bodies == { [name |-> n, email |-> e] : n \in Names, e \in Emails }

Send(m, pid, data) ==
  /\ sent < MaxReq
  /\ sent' = sent + 1
  /\ reqs' = reqs \cup { Req(sent + fetched + 1, m, pid, data, Ext) }

ClientRequest ==
  /\ \/ Send("LIST", NoPath, NoData)
     \/ \E d \in Bodies : Send("POST", NoPath, d)
     \/ \E p \in PathIds : Send("GET", p, NoData)
     \/ \E p \in PathIds, d \in Bodies : Send("PUT", p, d)
     \/ \E p \in PathIds : Send("DELETE", p, NoData)
  /\ UNCHANGED <<fetched, server, browser>>

\* ---------------------------------------------------------------- browser
Mounted(r) == r.src.inst = inst

\* how the await on fetch ends for request r: the promise rejects (network
\* failure, at any time), or the response arrives and res.ok is read
Outcomes(r) ==
  {"threw"} \cup (IF r.st = "answered"
                    THEN { IF ok(r.res) THEN "ok" ELSE "notok" }
                    ELSE {})

Event(r, outcome) ==
  [who |-> r.src.who, outcome |-> outcome, id |-> r.src.id, mounted |-> Mounted(r)]

\* fetch that sends the request twice
fetchTwice(pending, m, pid, data, src) ==
  /\ fetched < MaxFetch
  /\ Cardinality({ q \in pending : q.src.who # "ext" }) < MaxOpen
  /\ fetched' = fetched + 1
  /\ reqs' = pending \cup { Req(sent + fetched + 1, m, pid, data, src),
                            Req(sent + fetched + 2, m, pid, data, src) }
  /\ UNCHANGED sent

\* fetch(url, {method, body}) called by one of the browser's async functions
fetch(pending, m, pid, data, src) ==
  /\ fetched < MaxFetch
  /\ Cardinality({ q \in pending : q.src.who # "ext" }) < MaxOpen
  /\ fetched' = fetched + 1
  /\ reqs' = pending \cup { Req(sent + fetched + 1, m, pid, data, src) }
  /\ UNCHANGED sent

\* a new view instance replaces the mounted one
Mount(view, pid) ==
  /\ inst < 1 + MaxNav
  /\ inst' = inst + 1
  /\ page' = view
  /\ id' = pid
  /\ users' = {} /\ name' = "" /\ email' = "" /\ deleted' = {}

\* Home, mounted: useEffect runs fetchUsers once
MountHome(pending) ==
  /\ Mount("list", NoPath)
  /\ fetch(pending, "LIST", NoPath, NoData, Src("Home.fetchUsers", inst + 1, {}, 0))

\* router.push('/') with request r resolved: Home is mounted unless the
\* browser is already on it
Push(r) ==
  IF page = "list"
    THEN /\ reqs' = reqs \ {r}
         /\ UNCHANGED <<sent, fetched, page, inst, users, name, email, id, deleted>>
    ELSE MountHome(reqs \ {r})

\* the catch block: console.error(error), nothing else
Catch(r) ==
  /\ console' = console + 1
  /\ reqs' = reqs \ {r}
  /\ UNCHANGED <<sent, fetched, page, inst, users, name, email, id, deleted>>

\* Home: fetchUsers after its await
fetchUsers ==
  \E r \in reqs : r.src.who = "Home.fetchUsers" /\ \E out \in Outcomes(r) :
    /\ ev' = Event(r, out)
    /\ IF out = "ok"
         THEN /\ users' = (IF Mounted(r) THEN r.res.rows ELSE users)
              /\ reqs' = reqs \ {r}
              /\ UNCHANGED <<sent, fetched, page, inst, name, email, id, deleted, console>>
         ELSE Catch(r)
    /\ UNCHANGED server

\* Home: the Delete button of row u calls deleteUser(u.id), which captures
\* the users of the render the button belongs to
ClickDelete ==
  /\ page = "list"
  /\ \E u \in users :
       fetch(reqs, "DELETE", NumberToString(u.id), NoData,
             Src("Home.deleteUser", inst, users, u.id))
  /\ UNCHANGED <<server, browser>>

\* deleteUser without the res.ok check
deleteUserUnchecked ==
  \E r \in reqs : r.src.who = "Home.deleteUser" /\ \E out \in Outcomes(r) :
    /\ ev' = Event(r, out)
    /\ IF out # "threw"
         THEN /\ users' = (IF Mounted(r)
                             THEN { u \in r.src.users : u.id # r.src.id }
                             ELSE users)
              /\ deleted' = (IF Mounted(r) /\ out = "ok"
                               THEN deleted \cup {r.src.id} ELSE deleted)
              /\ reqs' = reqs \ {r}
              /\ UNCHANGED <<sent, fetched, page, inst, name, email, id, console>>
         ELSE Catch(r)
    /\ UNCHANGED server

\* Home: deleteUser after its await
deleteUser ==
  \E r \in reqs : r.src.who = "Home.deleteUser" /\ \E out \in Outcomes(r) :
    /\ ev' = Event(r, out)
    /\ IF out = "ok"
         THEN /\ users' = (IF Mounted(r)
                             THEN { u \in r.src.users : u.id # r.src.id }
                             ELSE users)
              /\ deleted' = (IF Mounted(r) THEN deleted \cup {r.src.id} ELSE deleted)
              /\ reqs' = reqs \ {r}
              /\ UNCHANGED <<sent, fetched, page, inst, name, email, id, console>>
         ELSE Catch(r)
    /\ UNCHANGED server

\* Home: the "Add New User" link
ClickAddUser ==
  /\ page = "list"
  /\ Mount("add", NoPath)
  /\ UNCHANGED <<server, reqs, sent, fetched, console, ev>>

\* Home: the Edit link of row u; EditUser's useEffect runs fetchUser
ClickEdit ==
  /\ page = "list"
  /\ \E u \in users :
       /\ Mount("edit", NumberToString(u.id))
       /\ fetch(reqs, "GET", NumberToString(u.id), NoData,
                Src("EditUser.fetchUser", inst + 1, {}, 0))
  /\ UNCHANGED <<server, console, ev>>

\* AddUser / EditUser: onChange of the two inputs
setName ==
  /\ page \in {"add", "edit"}
  /\ \E v \in Names : name' = v
  /\ UNCHANGED <<server, reqs, sent, fetched, page, inst, users, email, id, console, deleted, ev>>

setEmail ==
  /\ page \in {"add", "edit"}
  /\ \E v \in Emails : email' = v
  /\ UNCHANGED <<server, reqs, sent, fetched, page, inst, users, name, id, console, deleted, ev>>

\* both inputs are `required`: the browser submits the form only when they
\* are filled in
Required == name # "" /\ email # ""

\* AddUser: handleSubmit up to its await
SubmitAdd ==
  /\ page = "add" /\ Required
  /\ fetch(reqs, "POST", NoPath, [name |-> name, email |-> email],
           Src("AddUser.handleSubmit", inst, {}, 0))
  /\ UNCHANGED <<server, browser>>

\* EditUser: handleSubmit up to its await
SubmitEdit ==
  /\ page = "edit" /\ Required
  /\ fetch(reqs, "PUT", id, [name |-> name, email |-> email],
           Src("EditUser.handleSubmit", inst, {}, 0))
  /\ UNCHANGED <<server, browser>>

\* handleSubmit without the response.ok check
handleSubmitUnchecked(who) ==
  \E r \in reqs : r.src.who = who /\ \E out \in Outcomes(r) :
    /\ ev' = Event(r, out)
    /\ IF out # "threw"
         THEN Push(r) /\ UNCHANGED console
         ELSE Catch(r)
    /\ UNCHANGED server

\* AddUser / EditUser: handleSubmit after its await
handleSubmit(who) ==
  \E r \in reqs : r.src.who = who /\ \E out \in Outcomes(r) :
    /\ ev' = Event(r, out)
    /\ IF out = "ok"
         THEN Push(r) /\ UNCHANGED console
         ELSE Catch(r)
    /\ UNCHANGED server

AddUser_handleSubmit  == handleSubmit("AddUser.handleSubmit")
EditUser_handleSubmit == handleSubmit("EditUser.handleSubmit")

\* EditUser: fetchUser after its await
fetchUser ==
  \E r \in reqs : r.src.who = "EditUser.fetchUser" /\ \E out \in Outcomes(r) :
    /\ ev' = Event(r, out)
    /\ IF out = "ok"
         THEN /\ name'  = (IF Mounted(r) THEN (CHOOSE u \in r.res.rows : TRUE).name ELSE name)
              /\ email' = (IF Mounted(r) THEN (CHOOSE u \in r.res.rows : TRUE).email ELSE email)
              /\ reqs' = reqs \ {r}
              /\ UNCHANGED <<sent, fetched, page, inst, users, id, deleted, console>>
         ELSE Catch(r)
    /\ UNCHANGED server

\* ------------------------------------------------------------------- Next
Handlers ==
  \/ GET_users \/ POST_users \/ GET_users_id \/ PUT_users_id \/ DELETE_users_id

Views ==
  \/ fetchUsers \/ ClickDelete \/ deleteUser \/ ClickAddUser \/ ClickEdit
  \/ setName \/ setEmail \/ SubmitAdd \/ SubmitEdit
  \/ AddUser_handleSubmit \/ EditUser_handleSubmit \/ fetchUser

\* the API under requests of any clients; the browser stays idle on the
\* create view
Next == Handlers \/ ClientRequest

Idle == Init /\ page = "add"

Spec == Idle /\ [][Next]_vars

\* the browser's views against the API
NextUI == Handlers \/ Views

SpecUI == Init /\ [][NextUI]_vars

\* ----------------------------------------------------------- API properties
key  == parseInt(last.pid)
\* the row that last's path id addresses in the table its handler found
hit  == IF key.nan THEN {} ELSE { u \in last.before : u.id = key.n }
rest == last.before \ hit

\* C1: in every reachable state of the API under any interleaving of create,
\* update and delete requests, no two rows share an id and no two share an
\* email.
C1_Unique == UniqueIds(table) /\ UniqueEmails(table)

\* a create or update that asked for an email another row holds was handled
C1_Witness ==
  /\ Cardinality(table) = 2
  /\ \/ last.m = "POST" /\ last.data.email \in emails(last.before)
     \/ last.m = "PUT" /\ hit # {} /\ last.data.email \in emails(rest)

\* C2: a create whose email no row holds answers with one new row carrying the
\* submitted name and email and an id no row had; the table, and so a
\* following list, is the old rows unchanged plus exactly that row.
C2_CreateAddsOne ==
  (last.m = "POST" /\ last.data.email \notin emails(last.before)) =>
    /\ last.res.status = 200 /\ last.res.kind = "user"
    /\ \E u \in last.res.rows :
         /\ last.res.rows = {u}
         /\ u.name = last.data.name /\ u.email = last.data.email
         /\ u.id \notin ids(last.before)
         /\ table = last.before \cup {u}
         /\ \A s \in GET(table, nextId) :
              s.res = Response(200, "users", last.before \cup {u}, "")

C2_Witness ==
  /\ last.m = "POST" /\ last.data.email \notin emails(last.before)
  /\ last.before # {} /\ Cardinality(table) = Cardinality(last.before) + 1
  /\ prev.m = "DELETE" /\ prev.status = 200

NotFound == Response(404, "message", {}, "User not found")

C4_UpdateThenRead ==
  (last.m = "PUT" /\ hit # {} /\ last.data.email \notin emails(rest)) =>
    LET new == User(key.n, last.data.name, last.data.email)
    IN  /\ last.res = Response(200, "user", {new}, "")
        /\ table = rest \cup {new}
        /\ \A s \in GET_id(table, nextId, last.pid) :
             s.res = Response(200, "user", {new}, "")

\* an update that changed both the name and the email of a row
C4_Witness ==
  /\ last.m = "PUT" /\ last.res.status = 200
  /\ \E u \in hit : u.name # last.data.name /\ u.email # last.data.email

\* C5: a delete of an existing id answers {message: "User deleted"} and
\* removes exactly that row: a following list has no row with the id, a
\* following read by the id answers not-found and a following delete of the
\* id fails and changes nothing; any delete of an id without a row fails
\* with an error and leaves the table as it was.
C5_Delete ==
  last.m = "DELETE" =>
    IF hit # {}
      THEN /\ last.res = Response(200, "message", {}, "User deleted")
           /\ table = rest
           /\ \A s \in GET(table, nextId) : key.n \notin ids(s.res.rows)
           /\ \A s \in GET_id(table, nextId, last.pid) : s.res = NotFound
           /\ \A s \in DELETE_id(table, nextId, last.pid) :
                s.res = ServerError /\ s.table = table
      ELSE /\ last.res = ServerError
           /\ table = last.before

\* the second of two deletes of the same id, the first answered ok
C5_Witness ==
  /\ last.m = "DELETE" /\ last.res = ServerError
  /\ prev.m = "DELETE" /\ prev.status = 200 /\ parseInt(prev.pid) = key

\* C6: an update of an id without a row fails with an error: it answers no
\* row, creates none, and leaves the table as it was.
C6_UpdateMissing ==
  (last.m = "PUT" /\ hit = {}) =>
    /\ last.res = ServerError
    /\ last.res.rows = {}
    /\ table = last.before

C6_Witness ==
  /\ last.m = "PUT" /\ hit = {} /\ ~key.nan
  /\ last.before # {} /\ last.data.email \notin emails(last.before)

\* C7: of two creates with the same email that were in flight together and
\* handled one after the other, the email held by no row before, the first
\* succeeds and the second fails, and the table holds exactly one row with
\* that email.
C7_Race ==
  ( /\ prev.m = "POST" /\ last.m = "POST"
    /\ last.ov
    /\ prev.email = last.data.email
    /\ prev.fresh ) =>
    /\ prev.status = 200
    /\ last.res = ServerError
    /\ Cardinality({ u \in table : u.email = last.data.email }) = 1

C7_Witness ==
  /\ prev.m = "POST" /\ last.m = "POST"
  /\ last.ov
  /\ prev.email = last.data.email
  /\ prev.fresh
  /\ last.res.status = 500

\* ------------------------------------------------------- browser properties
rids(rs) == { r.rid : r \in rs }

\* the browser's requests whose await ends in this step
Resolved(who) == { r \in reqs : r.src.who = who /\ r.rid \notin rids(reqs') }

\* the browser's requests in flight that the mounted view instance sent
Open == { r \in reqs : r.src.who # "ext" /\ r.src.inst = inst }

Submits == {"AddUser.handleSubmit", "EditUser.handleSubmit"}
Loads   == {"Home.fetchUsers", "EditUser.fetchUser"}

\* C8: in the list view a row leaves the displayed list only when the DELETE
\* for its id has been answered ok; the step that resumes deleteUser takes
\* the ok branch only on an ok response and then the row of that id is not
\* displayed; on a response that is not ok or a rejected fetch the displayed
\* list stays as it was and the error is logged once.
C8_DeleteGated ==
  [][ /\ (page = "list" /\ inst' = inst) =>
           \A u \in users \ users' : u.id \in deleted'
      /\ \A r \in Resolved("Home.deleteUser") :
           IF ev'.outcome = "ok"
             THEN /\ r.st = "answered" /\ ok(r.res)
                  /\ Mounted(r) => r.src.id \notin ids(users')
                  /\ console' = console
             ELSE /\ users' = users
                  /\ page' = page /\ inst' = inst
                  /\ console' = console + 1
    ]_vars

\* a DELETE of the mounted list view was answered ok and its row is gone
C8_Witness ==
  /\ page = "list"
  /\ ev.who = "Home.deleteUser" /\ ev.outcome = "ok" /\ ev.mounted
  /\ ev.id \in deleted /\ ev.id \notin ids(users)
  /\ ev.id \notin ids(table)

\* C9 as stated: the mounted view has at most one request in flight.
C9_Original == Cardinality(Open) <= 1

\* C9 amended: every initial load and every user action (a Delete click, a
\* form submission) starts exactly one request, and a view instance has at
\* most one initial-load request in flight; the requests in flight of a view
\* are not limited to one: each further click or submission adds one while
\* earlier ones are unanswered.
C9_OnePerCall ==
  /\ [](Cardinality({ r \in Open : r.src.who \in Loads }) <= 1)
  /\ [][ /\ Cardinality(rids(reqs') \ rids(reqs)) = fetched' - fetched
         /\ fetched' - fetched \in {0, 1}
         /\ \A r \in reqs' :
              (r.rid \notin rids(reqs) /\ r.src.who \in Loads) => inst' = inst + 1
       ]_vars

\* two requests of the mounted view are in flight
C9_Witness == Cardinality(Open) = 2

\* C10: the browser leaves the create view or the edit view only for the
\* list view and only in the step that resumes a handleSubmit whose request
\* (POST for the create view, PUT for the edit view) was answered ok; when
\* the response is not ok or the fetch rejects, the page, the view instance
\* and the name and email inputs stay as they were.
C10_NavigateAfterOk ==
  [][ /\ (page \in {"add", "edit"} /\ (page' # page \/ inst' # inst)) =>
           /\ page' = "list"
           /\ \E r \in reqs :
                /\ r.src.who \in Submits /\ r.rid \notin rids(reqs')
                /\ r.st = "answered" /\ ok(r.res)
                /\ r.m = (IF r.src.who = "AddUser.handleSubmit" THEN "POST" ELSE "PUT")
      /\ \A r \in reqs :
           (r.src.who \in Submits /\ r.rid \notin rids(reqs')
              /\ ~(r.st = "answered" /\ ok(r.res))) =>
             /\ ev'.outcome # "ok"
             /\ page' = page /\ inst' = inst
             /\ name' = name /\ email' = email
             /\ console' = console + 1
    ]_vars

\* a submission failed and the form still shows what the user entered
C10_Witness ==
  /\ page \in {"add", "edit"}
  /\ ev.who \in Submits /\ ev.outcome = "notok" /\ ev.mounted
  /\ name # "" /\ email # ""
  /\ console > 0


\* C11: in the list view, once no DELETE started by the mounted instance is
\* still in flight, the displayed list holds no user whose DELETE that
\* instance saw answered ok, whatever the order of clicks and responses.
C11_NoDeletedRowShown ==
  (page = "list" /\ { r \in Open : r.src.who = "Home.deleteUser" } = {}) =>
    ids(users) \cap deleted = {}

====
